---- MODULE Spec2Model ----
(***************************************************************************)
(* A model of cueParse.py (Signature-Sound-Vienna/cueToRdf):               *)
(*   - parse_cue_file, the line-oriented cue parser         (SpecParse)    *)
(*   - _map_uri_for_branch / _remap_graph_for_branch        (SpecRemap)    *)
(*   - mb_get, the MusicBrainz rate gate                    (SpecGate)     *)
(*   - build_rdf_content, the entity graph builder          (SpecBuild)    *)
(*                                                                         *)
(* Strings whose inner structure the code inspects (URIs, branch names,   *)
(* external track numbers) are sequences of tokens: a token is either a    *)
(* separator ("/", "#", ".") or a word holding no separator, so every      *)
(* string has one tokenisation and concatenation is \o.  Strings the code *)
(* only stores and compares (titles, file names) are atoms.                *)
(***************************************************************************)
EXTENDS Integers, Sequences, FiniteSets, TLC

VARIABLES
    \* ---- parse_cue_file ----
    pc,              \* "open" | "loop" | "done" (returned) | "raised" (exception left the function)
    parsed,          \* the dict `parsed`
    current_track,   \* int, or NoTrack for None
    current_file,    \* str, or NoFile for None
    line,            \* the loop variable `line` (after strip())
    nread,           \* number of lines consumed from `lines`
    fileSinceTrack,  \* history: a FILE "<name>" WAVE line was read since the last track was opened
    \* ---- _remap_graph_for_branch ----
    rpc,             \* "call" | "done"
    graph,           \* the argument `graph`, a set of triples
    branch,          \* the argument `branch`
    ng,              \* the returned graph
    \* ---- mb_get ----
    callers,         \* the threads that call mb_get
    clock,           \* time.time(), in ticks
    MB_LAST_HIT,     \* the global _MB_LAST_HIT, in ticks
    gpc,             \* per caller: "idle" | "gate" | "sleep" | "send" | "get"
    wait,            \* per caller: the local `wait`
    wake,            \* per caller: when time.sleep(wait) may return
    sends,           \* history: the times at which requests to musicbrainz.org were sent
    \* ---- build_rdf_content ----
    bpc,             \* "start" | "tracks" | "done" (returned) | "raised" (exception left the function)
    bdoc,            \* the document p of the list `parsed`
    roots,           \* media_root_paths
    peaks_root_dir,  \* TRUE when a peaks root directory is given
    ssvUriComponent,
    mbid_clean,
    mbz_album_json,
    ws_release_json,
    release_recordings_map,
    tpos,            \* tracks of p already handled by the loop of line 495
    g,               \* the full graph
    private,         \* the private graph
    releaseGraph, releaseEventGraph, recordGraph, trackGraph, signalGraph,
    performanceGraphs, performerGraphs,   \* the Graph objects made at lines 626 and 635, one per track
    locals_dict,     \* subdir -> list of references to the graph objects above
    mbcalls,         \* history: the requests made through mb_get
    peaks_files,     \* the tracks whose peaks file compute_peaks has written
    \* ---- __main__: writing the outputs ----
    wpc,             \* "write" | "done" (all loops ended) | "raised" (exception left the script)
    plan,            \* the artifacts the script writes, in the order of lines 796-855
    wpos,            \* artifacts attempted so far
    written,         \* positions in plan of the artifacts serialized
    esub,            \* subdirs of locals_dict whose items were written
    entity_files     \* the per-entity output directory: subdir -> key -> file

parseVars == <<pc, parsed, current_track, current_file, line, nread, fileSinceTrack>>
remapVars == <<rpc, graph, branch, ng>>
gateVars == <<callers, clock, MB_LAST_HIT, gpc, wait, wake, sends>>

buildVars ==
    <<bpc, bdoc, roots, peaks_root_dir, ssvUriComponent, mbid_clean, mbz_album_json,
      ws_release_json, release_recordings_map, tpos, g, private, releaseGraph,
      releaseEventGraph, recordGraph, trackGraph, signalGraph, performanceGraphs,
      performerGraphs, locals_dict, mbcalls, peaks_files>>

writeVars == <<wpc, plan, wpos, written, esub, entity_files>>

vars == <<parseVars, remapVars, gateVars, buildVars, writeVars>>
notParse == <<remapVars, gateVars, buildVars, writeVars>>
notRemap == <<parseVars, gateVars, buildVars, writeVars>>
notGate == <<parseVars, remapVars, buildVars, writeVars>>
notBuild == <<parseVars, remapVars, gateVars, writeVars>>
notWrite == <<parseVars, remapVars, gateVars, buildVars>>

-----------------------------------------------------------------------------
(* Bounds *)
MaxLines == 4     \* lines of one cue file
MaxTrack == 2     \* track numbers 1..MaxTrack occur in TRACK lines
MaxTriples == 2   \* triples of a graph handed to _remap_graph_for_branch
MaxRequests == 3  \* requests sent to musicbrainz.org in one run
MaxTime == 6      \* ticks of the clock after the start of the run
MaxBranches == 1  \* branches given with -b
MaxSubdirs == 2   \* sub-graph directories written per output directory

-----------------------------------------------------------------------------
(* Python values *)
NoTrack == -1                 \* current_track = None
NoFile == "<None>"            \* current_file = None
EmptyMap == [k \in {} |-> ""] \* {}

\* d[k] = v
Put(d, k, v) == (k :> v) @@ d

-----------------------------------------------------------------------------
(* The lines of a cue file, as line.strip() leaves them.                   *)
(*   kw   the first word                                                   *)
(*   num  the digits after TRACK / INDEX ("" elsewhere)                    *)
(*   arg  FILE: the text between the quotes; REM: the key; else the value  *)
(*   tail TRACK: the mode; FILE: the type; REM: the value                  *)

Ln(kw, num, arg, tail) == [kw |-> kw, num |-> num, arg |-> arg, tail |-> tail]

\* int(track_match[1])
IntOf(d) ==
    CASE d = "00" -> 0
      [] d \in {"01", "1"} -> 1
      [] d \in {"02", "2"} -> 2
      [] d \in {"03", "3"} -> 3
      [] d \in {"04", "4"} -> 4
      [] OTHER -> 0

TrackDigits == {d \in {"01", "1", "02", "03", "04"} : IntOf(d) \in 1..MaxTrack}
FileNames == {"", "a.wav", "b.wav"}

Lines ==
    {Ln("TRACK", d, "", m) : d \in TrackDigits, m \in {"AUDIO", "MODE1/2352"}}
    \cup {Ln("FILE", "", f, "WAVE") : f \in FileNames}
    \cup {Ln("FILE", "", "a.mp3", "MP3")}
    \cup {Ln("TITLE", "", t, "") : t \in {"T1", "T2"}}
    \cup {Ln(k, "", "v", "") : k \in {"PERFORMER", "ISRC", "PREGAP", "CATALOG", "FLAGS"}}
    \cup {Ln("INDEX", d, "00:00:00", "") : d \in {"00", "01"}}
    \cup {Ln("REM", "", k, "v") : k \in {"MUSICBRAINZ_ALBUM_ARTIST_ID", "MUSICBRAINZ_ALBUM_ID",
                                          "MUSICBRAINZ_TRACK_ID", "MUSICBRAINZ_ARTIST_ID", "DATE"}}

\* line.startswith('FILE'), line.startswith('TRACK')
StartsWithFILE(l) == l.kw = "FILE"
StartsWithTRACK(l) == l.kw = "TRACK"

\* re.compile(" *TRACK (\\d+) AUDIO").match(line)
TrackMatch(l) == l.kw = "TRACK" /\ l.tail = "AUDIO"
\* re.compile('FILE "(.*)" WAVE$').match(line)
FileMatch(l) == l.kw = "FILE" /\ l.tail = "WAVE"
\* re.compile('REM MUSICBRAINZ_ALBUM_ARTIST_ID (.*)') etc.
RemMatch(l, key) == l.kw = "REM" /\ l.arg = key
\* re.compile('REM *(.*) (.*)').match(line)
HeaderMatch(l) == l.kw = "REM"
\* re.compile(" *TITLE (.*$)") etc.: a keyword followed by its value
KwMatch(l, kw) == l.kw = kw
\* re.compile(" *INDEX 01 (.*$)")
IndexMatch(l) == l.kw = "INDEX" /\ l.num = "01"

\* header_match[1].lower()
Lower(k) ==
    CASE k = "DATE" -> "date"
      [] k = "MUSICBRAINZ_TRACK_ID" -> "musicbrainz_track_id"
      [] k = "MUSICBRAINZ_ARTIST_ID" -> "musicbrainz_artist_id"
      [] k = "MUSICBRAINZ_ALBUM_ID" -> "musicbrainz_album_id"
      [] k = "MUSICBRAINZ_ALBUM_ARTIST_ID" -> "musicbrainz_album_artist_id"
      [] OTHER -> k

-----------------------------------------------------------------------------
(* parse_cue_file                                                          *)
(* The dict `parsed`: skeys are its string keys, keys its int keys in      *)
(* insertion order, header = parsed["header"], trk[n] = parsed[n].         *)

\* lines 252-254: return {}
EmptyDict ==
    [skeys |-> {}, file_path |-> <<>>, header |-> EmptyMap, keys |-> <<>>,
     trk |-> [n \in {} |-> EmptyMap]]

\* lines 255-257
NewParsed(path) ==
    [skeys |-> {"file_path", "header"}, file_path |-> path,
     header |-> EmptyMap, keys |-> <<>>, trk |-> [n \in {} |-> EmptyMap]]

\* the result of one loop iteration
Res(p, ct, cf, err) == [parsed |-> p, current_track |-> ct, current_file |-> cf, raised |-> err]

\* parsed["header"][k] = v
SetHeader(p, k, v) == [p EXCEPT !.header = Put(@, k, v)]

\* parsed[current_track][k] = v; KeyError when parsed holds no such key
SetField(p, ct, cf, k, v) ==
    IF ct \in DOMAIN p.trk
    THEN Res([p EXCEPT !.trk = Put(@, ct, Put(p.trk[ct], k, v))], ct, cf, FALSE)
    ELSE Res(p, ct, cf, TRUE)

\* parsed[n] = {}: a new key goes last, an existing key keeps its place
NewTrack(p, n) ==
    [p EXCEPT !.keys = IF n \in DOMAIN p.trk THEN @ ELSE Append(@, n),
              !.trk = Put(@, n, EmptyMap)]

\* line 262: the header branch is taken
IsHeaderLine_Mut(ct, l) == ct = NoTrack /\ ~StartsWithFILE(l) /\ ~(l.kw \in {"TRACK", "TITLE"})

IsHeaderLine(ct, l) == ct = NoTrack /\ ~StartsWithFILE(l) /\ ~StartsWithTRACK(l)

AttachFile_Mut(p, n, cf) == p

\* lines 319-322: if current_file: parsed[current_track]["file"] = current_file
AttachFile(p, n, cf) ==
    IF cf # NoFile /\ cf # ""
    THEN [p EXCEPT !.trk = Put(@, n, Put(p.trk[n], "file", cf))]
    ELSE p

\* lines 316-322
OpenTrack(p, l, cf) ==
    LET n == IntOf(l.num)
    IN  Res(AttachFile(NewTrack(p, n), n, cf), n, cf, FALSE)

\* lines 265-289
HeaderLine(p, ct, cf, l) ==
    CASE RemMatch(l, "MUSICBRAINZ_ALBUM_ARTIST_ID") ->
            Res(SetHeader(p, "mbz_artist_list", l.tail), ct, cf, FALSE)
      [] RemMatch(l, "MUSICBRAINZ_ALBUM_ID") ->
            Res(SetHeader(p, "mbz_album_id", l.tail), ct, cf, FALSE)
      [] HeaderMatch(l) /\ ~RemMatch(l, "MUSICBRAINZ_ALBUM_ARTIST_ID")
                        /\ ~RemMatch(l, "MUSICBRAINZ_ALBUM_ID") ->
            Res(SetHeader(p, Lower(l.arg), l.tail), ct, cf, FALSE)
      [] KwMatch(l, "CATALOG") -> Res(SetHeader(p, "catalog", l.arg), ct, cf, FALSE)
      [] KwMatch(l, "TITLE") -> Res(SetHeader(p, "title", l.arg), ct, cf, FALSE)
      [] KwMatch(l, "PERFORMER") -> Res(SetHeader(p, "performer", l.arg), ct, cf, FALSE)
      [] TrackMatch(l) -> Res(NewTrack(p, IntOf(l.num)), IntOf(l.num), cf, FALSE)
      [] OTHER -> Res(p, ct, cf, FALSE)

BufferFile_Mut(p, ct, cf, l) == Res(p, NoTrack, l.arg, FALSE)

\* lines 323-326: current_file = file_match[1]
BufferFile(p, ct, cf, l) == Res(p, ct, l.arg, FALSE)

\* lines 291-328
BodyLine(p, ct, cf, l) ==
    CASE KwMatch(l, "TITLE") -> SetField(p, ct, cf, "title", l.arg)
      [] RemMatch(l, "MUSICBRAINZ_TRACK_ID") -> SetField(p, ct, cf, "mbz_track", l.tail)
      [] RemMatch(l, "MUSICBRAINZ_ARTIST_ID") -> SetField(p, ct, cf, "mbz_artist", l.tail)
      [] KwMatch(l, "PERFORMER") -> SetField(p, ct, cf, "performer", l.arg)
      [] KwMatch(l, "ISRC") -> SetField(p, ct, cf, "isrc", l.arg)
      [] KwMatch(l, "PREGAP") -> SetField(p, ct, cf, "pregap", l.arg)
      [] IndexMatch(l) -> SetField(p, ct, cf, "index", l.arg)
      [] TrackMatch(l) -> OpenTrack(p, l, cf)
      [] FileMatch(l) -> BufferFile(p, ct, cf, l)
      [] OTHER -> Res(p, ct, cf, FALSE)

\* lines 260-328: one iteration of the loop
ParseLine(p, ct, cf, l) ==
    IF IsHeaderLine(ct, l) THEN HeaderLine(p, ct, cf, l) ELSE BodyLine(p, ct, cf, l)

\* "/m/a/c.cue": a path is a sequence of characters, the file name one token
CuePath == <<"/", "m", "/", "a", "/", "c.cue">>

ParseIdle ==
    /\ pc = "idle" /\ parsed = EmptyDict /\ current_track = NoTrack /\ current_file = NoFile
    /\ line = Ln("", "", "", "") /\ nread = 0 /\ fileSinceTrack = FALSE

ParseStart ==
    /\ pc = "open"
    /\ parsed = EmptyDict
    /\ current_track = NoTrack
    /\ current_file = NoFile
    /\ line = Ln("", "", "", "")
    /\ nread = 0
    /\ fileSinceTrack = FALSE

\* lines 249-259: the file is read, parsed and the two loop variables are set up
OpenFile ==
    /\ pc = "open"
    /\ pc' = "loop"
    /\ parsed' = NewParsed(CuePath)
    /\ UNCHANGED <<current_track, current_file, line, nread, fileSinceTrack>>
    /\ UNCHANGED notParse

\* lines 252-254: open() or readlines() raised; {} is returned
OpenFails ==
    /\ pc = "open"
    /\ pc' = "failed"
    /\ UNCHANGED <<parsed, current_track, current_file, line, nread, fileSinceTrack>>
    /\ UNCHANGED notParse

\* the loop body on the next line of the file
ReadLine ==
    /\ pc = "loop"
    /\ nread < MaxLines
    /\ \E l \in Lines :
        LET r == ParseLine(parsed, current_track, current_file, l)
        IN  /\ line' = l
            /\ parsed' = r.parsed
            /\ current_track' = r.current_track
            /\ current_file' = r.current_file
            /\ pc' = IF r.raised THEN "raised" ELSE "loop"
            /\ fileSinceTrack' = IF FileMatch(l) THEN TRUE
                                 ELSE IF TrackMatch(l) THEN FALSE ELSE fileSinceTrack
    /\ nread' = nread + 1
    /\ UNCHANGED notParse

\* end of `lines`: return parsed
EndOfFile ==
    /\ pc = "loop"
    /\ pc' = "done"
    /\ UNCHANGED <<parsed, current_track, current_file, line, nread, fileSinceTrack>>
    /\ UNCHANGED notParse

-----------------------------------------------------------------------------
(* Strings as token sequences, and RDF terms                               *)

StartsWith(s, prefix) ==
    Len(prefix) <= Len(s) /\ SubSeq(s, 1, Len(prefix)) = prefix

\* s[n:]
From(s, n) == SubSeq(s, n + 1, Len(s))

RECURSIVE LStrip(_, _)
\* s.lstrip(c)
LStrip(s, c) == IF s # <<>> /\ Head(s) = c THEN LStrip(Tail(s), c) ELSE s

RECURSIVE RStrip(_, _)
\* s.rstrip(c)
RStrip(s, c) ==
    IF s # <<>> /\ s[Len(s)] = c THEN RStrip(SubSeq(s, 1, Len(s) - 1), c) ELSE s

\* s.strip(c)
Strip(s, c) == RStrip(LStrip(s, c), c)

\* RDF terms: s is the URI, the lexical form or the blank node id; dt a literal's datatype
URIRef(s) == [kind |-> "uri", s |-> s, dt |-> ""]
Literal(s) == [kind |-> "lit", s |-> s, dt |-> ""]
TypedLiteral(s, dt) == [kind |-> "lit", s |-> s, dt |-> dt]
BNode(s) == [kind |-> "bnode", s |-> s, dt |-> ""]

\* isinstance(u, URIRef)
IsURIRef(u) == u.kind = "uri"

\* "https://w3id.org/ssv/"
SSVBase == <<"https:", "/", "/", "w3id.org", "/", "ssv", "/">>
\* Namespace("http://purl.org/ontology/mo/")
MO == <<"http:", "/", "/", "purl.org", "/", "ontology", "/", "mo", "/">>
SSVAudio == SSVBase \o <<"audio", "/">>
SSVO == SSVBase \o <<"vocab", "#">>
SSVTrack == SSVBase \o <<"data", "/", "track", "/">>

-----------------------------------------------------------------------------
(* _map_uri_for_branch, _remap_graph_for_branch *)

MapUriForBranch_Mut(u, b) ==
    IF ~IsURIRef(u) THEN u
    ELSE IF StartsWith(u.s, SSVBase)
         THEN IF StartsWith(u.s, SSVBase \o <<"audio", "/">>)
              THEN u
              ELSE URIRef(SSVBase \o Strip(b, "/") \o <<"/">> \o From(u.s, Len(SSVBase)))
         ELSE u

\* lines 107-118
MapUriForBranch(u, b) ==
    IF ~IsURIRef(u) THEN u
    ELSE IF StartsWith(u.s, SSVBase)
         THEN IF StartsWith(u.s, SSVBase \o <<"audio", "/">>)
                 \/ StartsWith(u.s, SSVBase \o <<"vocab", "#">>)
              THEN u
              ELSE URIRef(SSVBase \o Strip(b, "/") \o <<"/">> \o From(u.s, Len(SSVBase)))
         ELSE u

\* lines 125-127: one term of a triple
MapTerm(t, b) == IF IsURIRef(t) THEN MapUriForBranch(t, b) ELSE t

\* lines 121-129: a new Graph holding the remapped triples
RemapGraphForBranch(gr, b) ==
    {<<MapTerm(t[1], b), MapTerm(t[2], b), MapTerm(t[3], b)>> : t \in gr}

\* the terms of the graphs handed to the remapping
RemapSubjects ==
    {URIRef(SSVTrack \o <<"x">>), URIRef(SSVAudio \o <<"x">>), BNode(<<"b1">>)}
RemapPredicates ==
    {URIRef(SSVO \o <<"peaks">>), URIRef(MO \o <<"track">>), URIRef(SSVBase \o <<"data", "/", "p">>)}
RemapObjects ==
    {URIRef(SSVTrack \o <<"x">>), URIRef(SSVAudio \o <<"x">>), URIRef(SSVO \o <<"Thing">>),
     URIRef(SSVBase \o <<"audio">>), URIRef(MO \o <<"Track">>),
     Literal(SSVTrack \o <<"x">>), BNode(<<"b1">>)}
RemapTriples == RemapSubjects \X RemapPredicates \X RemapObjects
RECURSIVE GraphsUpTo(_)
GraphsUpTo(k) ==
    IF k = 0 THEN {{}}
    ELSE LET G == GraphsUpTo(k - 1) IN G \cup {gr \cup {t} : gr \in G, t \in RemapTriples}
RemapGraphs == GraphsUpTo(MaxTriples)
\* "", "dev", "dev/", "/dev", "/", "a/b"
Branches ==
    {<<>>, <<"dev">>, <<"dev", "/">>, <<"/", "dev">>, <<"/">>, <<"a", "/", "b">>}

RemapIdle ==
    /\ rpc = "idle" /\ graph = {} /\ branch = <<>> /\ ng = {}

RemapStart ==
    /\ rpc = "call"
    /\ graph \in RemapGraphs
    /\ branch \in Branches
    /\ ng = {}

\* _remap_graph_for_branch(graph, branch)
Remap ==
    /\ rpc = "call"
    /\ rpc' = "done"
    /\ ng' = RemapGraphForBranch(graph, branch)
    /\ UNCHANGED <<graph, branch>>
    /\ UNCHANGED notRemap

-----------------------------------------------------------------------------
(* mb_get.  Time is counted in ticks; a request is sent when requests.get  *)
(* is entered and the call ends with a response (of any status) or with an *)
(* exception (timeout, connection error).                                  *)

TicksPerSecond == 2
\* _MB_MIN_INTERVAL = 1.0
MB_MIN_INTERVAL == 1
MinIntervalTicks == MB_MIN_INTERVAL * TicksPerSecond
\* the clock at the start of the run: time.time() is far beyond _MB_LAST_HIT = 0.0
StartTime == MinIntervalTicks + 1

GateIdle ==
    /\ callers = {} /\ clock = 0 /\ MB_LAST_HIT = 0
    /\ gpc = <<>> /\ wait = <<>> /\ wake = <<>> /\ sends = <<>>

GateStart(n) ==
    /\ callers = 1..n
    /\ clock = StartTime
    /\ MB_LAST_HIT = 0
    /\ gpc = [c \in 1..n |-> "idle"]
    /\ wait = [c \in 1..n |-> 0]
    /\ wake = [c \in 1..n |-> 0]
    /\ sends = <<>>

\* time passes
Tick ==
    /\ callers # {}
    /\ clock < StartTime + MaxTime
    /\ clock' = clock + 1
    /\ UNCHANGED <<callers, MB_LAST_HIT, gpc, wait, wake, sends>>
    /\ UNCHANGED notGate

\* lines 35-38: mb_get(url) is called with a musicbrainz.org url
Call(c) ==
    /\ gpc[c] = "idle"
    /\ Len(sends) + Cardinality({d \in callers : gpc[d] # "idle"}) < MaxRequests
    /\ gpc' = [gpc EXCEPT ![c] = "gate"]
    /\ UNCHANGED <<callers, clock, MB_LAST_HIT, wait, wake, sends>>
    /\ UNCHANGED notGate

\* lines 39-40: now = time.time(); wait = (_MB_LAST_HIT + _MB_MIN_INTERVAL) - now
WaitFor(last, now) == (last + MinIntervalTicks) - now

ComputeWait(c) ==
    /\ gpc[c] = "gate"
    /\ wait' = [wait EXCEPT ![c] = WaitFor(MB_LAST_HIT, clock)]
    /\ wake' = [wake EXCEPT ![c] = clock + WaitFor(MB_LAST_HIT, clock)]
    /\ gpc' = [gpc EXCEPT ![c] = "sleep"]
    /\ UNCHANGED <<callers, clock, MB_LAST_HIT, sends>>
    /\ UNCHANGED notGate

\* lines 41-42: if wait > 0: time.sleep(wait)
Sleep(c) ==
    /\ gpc[c] = "sleep"
    /\ wait[c] > 0 => clock >= wake[c]
    /\ gpc' = [gpc EXCEPT ![c] = "send"]
    /\ UNCHANGED <<callers, clock, MB_LAST_HIT, wait, wake, sends>>
    /\ UNCHANGED notGate

\* line 48: requests.get(url, **kwargs) sends the request
Send(c) ==
    /\ gpc[c] = "send"
    /\ sends' = Append(sends, clock)
    /\ gpc' = [gpc EXCEPT ![c] = "get"]
    /\ UNCHANGED <<callers, clock, MB_LAST_HIT, wait, wake>>
    /\ UNCHANGED notGate

\* lines 48-50: requests.get returns a response; _MB_LAST_HIT = time.time()
Respond(c) ==
    /\ gpc[c] = "get"
    /\ MB_LAST_HIT' = clock
    /\ gpc' = [gpc EXCEPT ![c] = "idle"]
    /\ UNCHANGED <<callers, clock, wait, wake, sends>>
    /\ UNCHANGED notGate

\* line 48: requests.get raises; the exception leaves mb_get
Raise(c) ==
    /\ gpc[c] = "get"
    /\ gpc' = [gpc EXCEPT ![c] = "idle"]
    /\ UNCHANGED <<callers, clock, MB_LAST_HIT, wait, wake, sends>>
    /\ UNCHANGED notGate

-----------------------------------------------------------------------------
(* Values used by build_rdf_content *)

None == "<None>"

\* str(n) for the numbers of the model
Str(n) ==
    CASE n = 0 -> "0" [] n = 1 -> "1" [] n = 2 -> "2" [] n = 3 -> "3" [] n = 4 -> "4"
      [] n = 5 -> "5" [] n = 6 -> "6" [] n = 7 -> "7" [] n = 8 -> "8" [] OTHER -> "9"

\* Namespaces
TL == <<"http:", "/", "/", "purl.org", "/", "NET", "/", "c4dm", "/", "timeline.owl", "#">>
EV == <<"https:", "/", "/", "purl.org", "/", "NET", "/", "c4dm", "/", "event.owl", "#">>
RDF == <<"http:", "/", "/", "www.w3.org", "/", "1999", "/", "02", "/", "22-rdf-syntax-ns", "#">>
RDFS == <<"http:", "/", "/", "www.w3.org", "/", "2000", "/", "01", "/", "rdf-schema", "#">>
DCTERMS == <<"http:", "/", "/", "purl.org", "/", "dc", "/", "terms", "/">>
FOAF == <<"http:", "/", "/", "xmlns.com", "/", "foaf", "/", "0.1", "/">>
MusicBrainz(kind) == <<"https:", "/", "/", "musicbrainz.org", "/", kind, "/">>
ARTIST == MusicBrainz("artist")
WORK == MusicBrainz("work")
RELEASE == MusicBrainz("release")
ISRC == MusicBrainz("isrc")
TRACK == MusicBrainz("track")
LABEL == MusicBrainz("label")
\* get_ssv_namespaces(None), lines 84-104
SSVData(kind) == SSVBase \o <<"data", "/", kind, "/">>
SSVRelease == SSVData("release")
SSVReleaseEvent == SSVData("release_event")
SSVSignal == SSVData("signal")
SSVRecord == SSVData("record")
SSVPerformance == SSVData("performance")
SSVPerformer == SSVData("performer")
SSVPeaks == SSVData("peaks")

Term(ns, name) == URIRef(ns \o <<name>>)

\* lines 216-220
ValOk(v) == v # None /\ v \notin {"", " "} /\ v # "__NONE__"

\* d.get(k)
Get(d, k) == IF k \in DOMAIN d THEN d[k] ELSE None

\* lines 233-237: strip blanks and quotes; an empty result is None
CleanMbid(raw) ==
    CASE raw \in {None, "", "\"\""} -> None
      [] raw = "\"uuid-1\"" -> "uuid-1"
      [] OTHER -> raw

\* lines 239-246: uuid.UUID(u) accepts u
IsValidUuid(u) == u = "uuid-1"

\* lines 222-231: the first 4-digit word of the date, unless "0000"
ExtractYear(d) ==
    CASE d \in {"1999", "1999-05-01", "1999-00-00"} -> "1999"
      [] OTHER -> None

\* line 458: yyyy-mm-dd with neither month nor day "00"
IsFullDate(d) == d = "1999-05-01"

-----------------------------------------------------------------------------
(* Media root resolution, lines 210-214 and 364-382.  Paths are absolute,  *)
(* hold no ".", ".." or doubled separator, and are sequences of characters.*)

\* lines 210-214: os.path.normpath, then rstrip("/")
NormalizePath(path) == RStrip(path, "/")

LastSlash(path) ==
    LET S == {i \in 1..Len(path) : path[i] = "/"}
    IN  CHOOSE i \in S : \A j \in S : j <= i

\* pathlib.Path(file_path).parent.as_posix()
ParentPath(path) ==
    IF LastSlash(path) = 1 THEN <<"/">> ELSE SubSeq(path, 1, LastSlash(path) - 1)

\* root if root.endswith("/") else root + "/"
WithSlash(s) == IF s # <<>> /\ s[Len(s)] = "/" THEN s ELSE s \o <<"/">>

NoRoot == <<"<None>">>

RECURSIVE BestRoot(_, _, _, _)
\* lines 365-375
BestRoot(nroots, file_parent, best_root, best_len) ==
    IF nroots = <<>> THEN best_root
    ELSE LET root == Head(nroots)
             root_slash == WithSlash(root)
         IN  IF StartsWith(WithSlash(file_parent), root_slash) /\ Len(root_slash) > best_len
             THEN BestRoot(Tail(nroots), file_parent, root, Len(root_slash))
             ELSE BestRoot(Tail(nroots), file_parent, best_root, best_len)

\* lines 376-378: `if not best_root` falls back to the first root
SelectedRoot(nroots, file_parent) ==
    LET best == BestRoot(nroots, file_parent, NoRoot, -1)
    IN  IF best = NoRoot \/ best = <<>> THEN nroots[1] ELSE best

\* quote(c), then the replacements of line 382, on one character
UriChars(c) ==
    CASE c = "/" -> <<"_", "_">>
      [] c = " " -> <<"_", "-", "2", "0">>
      [] OTHER -> <<c>>

RECURSIVE QuoteComponent(_)
QuoteComponent(rel) ==
    IF rel = <<>> THEN <<>> ELSE UriChars(Head(rel)) \o QuoteComponent(Tail(rel))

\* lines 364-382
SsvUriComponent(file_path, media_root_paths) ==
    LET nroots == [i \in 1..Len(media_root_paths) |-> NormalizePath(media_root_paths[i])]
        file_parent == NormalizePath(ParentPath(file_path))
        best_root == SelectedRoot(nroots, file_parent)
        root_slash == WithSlash(best_root)
        rel_path == LStrip(From(file_parent, Len(RStrip(root_slash, "/"))), "/")
    IN  QuoteComponent(rel_path)

-----------------------------------------------------------------------------
(* The answers of musicbrainz.org *)

\* a JSON-LD track: trackNumber (numIsStr: it is a string), name, recordingOf
\* (hasRec: the key is there; a list of works, a single work being a list of one)
LdTrack(num, name, hasRec, rec) ==
    [trackNumber |-> num, numIsStr |-> TRUE, name |-> name, hasRec |-> hasRec, recordingOf |-> rec]
\* a work of recordingOf; id "" stands for a missing '@id'
LdWork(id, name) == [id |-> id, name |-> name]

\* the body of an answer: shape "null", "empty" ({}), "list" (a non-empty list where an
\* object is expected) or "dict"
Json(shape, date, labels, tracks) ==
    [shape |-> shape, date |-> date, labels |-> labels, track |-> tracks]
JNull == Json("null", None, <<>>, <<>>)

\* bool(j)
Truthy(j) == j.shape \in {"list", "dict"}

LdTrackLists ==
    { <<>>,
      <<LdTrack(<<"1", ".", "1">>, "T1", TRUE, <<LdWork("w1", "W1")>>)>>,
      <<LdTrack(<<"1", ".", "1">>, "T1", TRUE, <<LdWork("w1", "W1"), LdWork("w2", "")>>),
        LdTrack(<<"1", ".", "2">>, "T2", FALSE, <<>>)>>,
      <<LdTrack(<<"1", ".", "1">>, "T1", TRUE, <<LdWork("", "W1")>>)>>,
      <<LdTrack(<<"1", ".", "1">>, "T1", TRUE, <<LdWork("w1", "W1")>>),
        LdTrack(<<"2", ".", "1">>, "T9", TRUE, <<LdWork("w2", "W2")>>)>>,
      <<[LdTrack(<<"1">>, "T1", FALSE, <<>>) EXCEPT !.numIsStr = FALSE]>> }

LdJsons ==
    {JNull, Json("list", None, <<>>, <<>>)} \cup {Json("dict", None, <<>>, t) : t \in LdTrackLists}

WsLabel(id, name, catno) == [id |-> id, name |-> name, catno |-> catno]
WsTrack(num, rec_id) == [number |-> num, rec_id |-> rec_id]

WsJsons ==
    { Json("empty", None, <<>>, <<>>),
      Json("list", None, <<>>, <<>>),
      Json("dict", None, <<>>, <<>>),
      Json("dict", "1999-05-01", <<WsLabel("l1", "L1", "C9")>>, <<WsTrack(<<"1">>, "r1")>>),
      Json("dict", "1999-00-00", <<WsLabel(None, None, "__NONE__")>>,
           <<WsTrack(<<"1", ".", "2">>, "r2")>>) }

\* a relation of a recording: work id and title (None: no 'work' key, or no id)
RecRel(hasWork, id, title) == [hasWork |-> hasWork, id |-> id, title |-> title]
RecJsons ==
    { <<>>,
      <<RecRel(FALSE, None, None), RecRel(TRUE, "w3", "W3"), RecRel(TRUE, "w4", None)>> }

\* what a fetch ends with: an exception of requests ("neterr"), an HTTP error
\* status ("http"), a body that is no JSON ("badjson"), or a JSON body
Outcome(kind, json) == [kind |-> kind, json |-> json]
Failures == {Outcome(k, JNull) : k \in {"neterr", "http", "badjson"}}
LdOutcomes == Failures \cup {Outcome("json", j) : j \in LdJsons}
WsOutcomes == Failures \cup {Outcome("json", j) : j \in WsJsons}
RecOutcomes ==
    {[kind |-> k, relations |-> <<>>] : k \in {"neterr", "http", "badjson"}}
    \cup {[kind |-> "json", relations |-> r] : r \in RecJsons}

\* no fetch is made
NoFetch == Outcome("none", JNull)
NoRecFetch == [kind |-> "none", relations |-> <<>>]

\* the value left in the variable by `r = mb_get(...); r.raise_for_status(); x = r.json()`
\* inside try/except (lines 396-408, 410-423): None unless the body was JSON
Fetched(outcome) == IF outcome.kind = "json" THEN outcome.json ELSE JNull

\* the ids rdflib may give the BNode of line 447
BNodeIds == {<<"N1">>, <<"N2">>}

-----------------------------------------------------------------------------
(* build_rdf_content, for one document of the list `parsed` *)

RECURSIVE ParseLines(_, _, _, _)
\* parse_cue_file on a file whose lines are ls (lines 255-329)
ParseLines(p, ct, cf, ls) ==
    IF ls = <<>> THEN p
    ELSE LET r == ParseLine(p, ct, cf, Head(ls))
         IN  ParseLines(r.parsed, r.current_track, r.current_file, Tail(ls))

ParseCueFile(path, ls) == ParseLines(NewParsed(path), NoTrack, NoFile, ls)

\* the cue files handed to the builder: a header part, then tracks 1..k
TrackText(n) == CASE n = 1 -> "01" [] n = 2 -> "02" [] n = 3 -> "03" [] OTHER -> "04"
TrackLines(n) ==
    { <<Ln("TRACK", TrackText(n), "", "AUDIO")>>,
      <<Ln("TRACK", TrackText(n), "", "AUDIO"), Ln("TITLE", "", "T1", "")>>,
      <<Ln("FILE", "", "a.wav", "WAVE"), Ln("TRACK", TrackText(n), "", "AUDIO"),
        Ln("TITLE", "", "T1", ""), Ln("PERFORMER", "", "P1", ""), Ln("ISRC", "", "I1", ""),
        Ln("REM", "", "MUSICBRAINZ_TRACK_ID", "t1"), Ln("REM", "", "MUSICBRAINZ_ARTIST_ID", "a1")>> }
RECURSIVE BodyLines(_)
BodyLines(k) ==
    IF k = 0 THEN {<<>>}
    ELSE BodyLines(k - 1) \cup
         {b \o t : b \in {x \in BodyLines(k - 1) : Len(SelectSeq(x, TrackMatch)) = k - 1},
                   t \in TrackLines(k)}
HeaderLines ==
    { <<>>,
      <<Ln("TITLE", "", "A1", ""), Ln("CATALOG", "", "C1", ""), Ln("REM", "", "DATE", "1999")>>,
      <<Ln("TITLE", "", "__NONE__", "")>>,
      <<Ln("REM", "", "MUSICBRAINZ_ALBUM_ID", "uuid-1")>>,
      <<Ln("REM", "", "MUSICBRAINZ_ALBUM_ID", "\"uuid-1\""), Ln("TITLE", "", "A1", "")>>,
      <<Ln("REM", "", "MUSICBRAINZ_ALBUM_ID", "bad")>> }
BuildFiles == {h \o b : h \in HeaderLines, b \in BodyLines(MaxTrack)}
BuildDocs == {ParseCueFile(CuePath, f) : f \in BuildFiles}
\* media_root_paths: "/m", and "/m" with "/m/a"
RootLists == {<<<<"/", "m">>>>, <<<<"/", "m">>, <<"/", "m", "/", "a">>>>}

Subdirs == {"release", "release_event", "record", "track", "signal", "performance", "performer"}
\* a reference to one of the Graph objects of the function
Ref(obj, ix) == [obj |-> obj, ix |-> ix]
NoMap == [isNone |-> TRUE, m |-> EmptyMap]

BuildIdle ==
    /\ bpc = "idle" /\ bdoc = EmptyDict /\ roots = <<>> /\ peaks_root_dir = FALSE
    /\ ssvUriComponent = <<>> /\ mbid_clean = None /\ mbz_album_json = JNull
    /\ ws_release_json = JNull /\ release_recordings_map = NoMap /\ tpos = 0
    /\ g = {} /\ private = {} /\ releaseGraph = {} /\ releaseEventGraph = {}
    /\ recordGraph = {} /\ trackGraph = {} /\ signalGraph = {}
    /\ performanceGraphs = <<>> /\ performerGraphs = <<>>
    /\ locals_dict = [s \in Subdirs |-> <<>>] /\ mbcalls = <<>> /\ peaks_files = {}

\* lines 341-345: the state at the call of build_rdf_content([p], roots, peaks_root_dir)
BuildStart ==
    /\ bpc = "start"
    /\ bdoc \in BuildDocs
    /\ roots \in RootLists
    /\ peaks_root_dir \in BOOLEAN
    /\ ssvUriComponent = <<>> /\ mbid_clean = None /\ mbz_album_json = JNull
    /\ ws_release_json = JNull /\ release_recordings_map = NoMap /\ tpos = 0
    /\ g = {} /\ private = {} /\ releaseGraph = {} /\ releaseEventGraph = {}
    /\ recordGraph = {} /\ trackGraph = {} /\ signalGraph = {}
    /\ performanceGraphs = <<>> /\ performerGraphs = <<>>
    /\ locals_dict = [s \in Subdirs |-> <<>>] /\ mbcalls = <<>> /\ peaks_files = {}

MbidClean_Mut(header) ==
    IF "mbz_album_id" \in DOMAIN header THEN CleanMbid(header["mbz_album_id"]) ELSE None

\* lines 391-395
MbidClean(header) ==
    IF "mbz_album_id" \in DOMAIN header
    THEN LET c == CleanMbid(header["mbz_album_id"])
         IN  IF c # None /\ ~IsValidUuid(c) THEN None ELSE c
    ELSE None

\* lines 426-438
ReleaseTriples(p, c, mbid) ==
    LET release == URIRef(SSVRelease \o c)
        title_hdr == Get(p.header, "title")
        catno == IF Get(p.header, "catalog") \notin {None, ""}
                 THEN Get(p.header, "catalog") ELSE Get(p.header, "cddbcat")
    IN  {<<release, Term(RDF, "type"), Term(MO, "Release")>>,
         <<release, Term(MO, "record"), URIRef(SSVRecord \o c)>>}
        \cup (IF ValOk(title_hdr)
              THEN {<<release, Term(DCTERMS, "title"), Literal(<<title_hdr>>)>>,
                    <<release, Term(RDFS, "label"), Literal(<<"Release: ", title_hdr>>)>>}
              ELSE {})
        \cup (IF ValOk(catno)
              THEN {<<release, Term(MO, "catalogue_number"), Literal(<<catno>>)>>} ELSE {})
        \cup (IF mbid # None
              THEN {<<release, Term(MO, "musicbrainz"), Term(RELEASE, mbid)>>} ELSE {})

\* lines 451-455
IssuedDate(p, ws) ==
    LET d == IF Truthy(ws) /\ ws.date \notin {None, ""} THEN ws.date ELSE None
    IN  IF d = None THEN Get(p.header, "date") ELSE d

\* lines 443-464
ReleaseEventTriples(p, c, ws, bid) ==
    LET release == URIRef(SSVRelease \o c)
        release_event == URIRef(SSVReleaseEvent \o c)
        release_event_time == BNode(bid)
        issued_date == IssuedDate(p, ws)
        year == ExtractYear(issued_date)
    IN  {<<release_event, Term(RDF, "type"), Term(MO, "ReleaseEvent")>>,
         <<release_event, Term(RDF, "type"), Term(EV, "Event")>>,
         <<release_event, Term(MO, "release"), release>>,
         <<release_event, Term(EV, "time"), release_event_time>>,
         <<release_event_time, Term(RDF, "type"), Term(TL, "Instant")>>}
        \cup (IF ValOk(issued_date)
              THEN IF IsFullDate(issued_date)
                   THEN {<<release, Term(DCTERMS, "issued"), TypedLiteral(<<issued_date>>, "xsd:date")>>}
                   ELSE {<<release, Term(DCTERMS, "issued"), Literal(<<issued_date>>)>>}
              ELSE {})
        \cup (IF year # None
              THEN {<<release_event_time, Term(TL, "atYear"), TypedLiteral(<<year>>, "xsd:gYear")>>}
              ELSE {})

\* lines 469-479: the triples added to g for the labels
LabelTriples(ws) ==
    IF ~Truthy(ws) THEN {}
    ELSE UNION {IF ws.labels[i].id \notin {None, ""}
                THEN {<<Term(LABEL, ws.labels[i].id), Term(RDF, "type"), Term(FOAF, "Organization")>>}
                     \cup (IF ValOk(ws.labels[i].name)
                           THEN {<<Term(LABEL, ws.labels[i].id), Term(FOAF, "name"),
                                   Literal(<<ws.labels[i].name>>)>>}
                           ELSE {})
                ELSE {} : i \in 1..Len(ws.labels)}

\* lines 480-482: the triples added to releaseGraph for the labels
PublisherTriples(c, ws) ==
    IF ~Truthy(ws) THEN {}
    ELSE UNION {(IF ws.labels[i].id \notin {None, ""}
                 THEN {<<URIRef(SSVRelease \o c), Term(DCTERMS, "publisher"),
                         Term(LABEL, ws.labels[i].id)>>}
                 ELSE {})
                \cup (IF ValOk(ws.labels[i].catno)
                      THEN {<<URIRef(SSVRelease \o c), Term(MO, "catalogue_number"),
                              Literal(<<ws.labels[i].catno>>)>>}
                      ELSE {}) : i \in 1..Len(ws.labels)}

\* line 491: len(p) - 1
TrackCount(p) == Cardinality(p.skeys) + Len(p.keys) - 1

\* lines 485-493
RecordTriples(p, c, mbid) ==
    LET record == URIRef(SSVRecord \o c)
        title_hdr == Get(p.header, "title")
    IN  {<<record, Term(RDF, "type"), Term(MO, "Record")>>,
         <<record, Term(MO, "track_count"), TypedLiteral(<<Str(TrackCount(p))>>, "xsd:integer")>>}
        \cup (IF ValOk(title_hdr)
              THEN {<<record, Term(RDFS, "label"), Literal(<<"Record: ", title_hdr>>)>>} ELSE {})
        \cup (IF mbid # None
              THEN {<<record, Term(MO, "musicbrainz"), Term(RELEASE, mbid)>>} ELSE {})

\* lines 363-493: the part of the loop body before the tracks of the document
BuildHeader ==
    /\ bpc = "start"
    /\ LET p == bdoc
           c == SsvUriComponent(p.file_path, roots)
           mbid == MbidClean(p.header)
           relG == ReleaseTriples(p, c, mbid)
       IN  \* lines 397 and 411: the two fetches are made only `if mbid_clean`
           \E ld \in IF mbid # None THEN LdOutcomes ELSE {NoFetch},
              ws \in IF mbid # None THEN WsOutcomes ELSE {NoFetch},
              bid \in BNodeIds :
            LET ldj == Fetched(ld)
                wsj == Fetched(ws)
                evG == ReleaseEventTriples(p, c, wsj, bid)
            IN  /\ mbcalls' = IF mbid # None THEN <<"release-jsonld", "release-ws2">> ELSE <<>>
                /\ IF wsj.shape = "list"
                   THEN \* line 453: a list has no .get
                        /\ bpc' = "raised"
                        /\ UNCHANGED <<ssvUriComponent, mbid_clean, mbz_album_json,
                                       ws_release_json, g, releaseGraph, releaseEventGraph,
                                       recordGraph, locals_dict>>
                   ELSE /\ bpc' = "tracks"
                        /\ ssvUriComponent' = c
                        /\ mbid_clean' = mbid
                        /\ mbz_album_json' = ldj
                        /\ ws_release_json' = wsj
                        /\ releaseGraph' = relG \cup PublisherTriples(c, wsj)
                        /\ releaseEventGraph' = evG
                        /\ recordGraph' = RecordTriples(p, c, mbid)
                        /\ g' = relG \cup evG \cup LabelTriples(wsj)
                        /\ locals_dict' = [locals_dict EXCEPT
                                !["release"] = Append(@, Ref("releaseGraph", 0)),
                                !["release_event"] = Append(@, Ref("releaseEventGraph", 0))]
    /\ UNCHANGED <<bdoc, roots, peaks_root_dir, release_recordings_map, tpos, private,
                   trackGraph, signalGraph, performanceGraphs, performerGraphs, peaks_files>>
    /\ UNCHANGED notBuild

\* t.get('trackNumber','').split('.')[-1], str(tr.get('number','')).split('.')[-1]
LastPart(num) == IF num = <<>> \/ num[Len(num)] = "." THEN "" ELSE num[Len(num)]

\* fuzz.ratio(a, b) on the titles of the model
FuzzRatio(a, b) == IF a = b THEN 100 ELSE 50

FirstWithId(rec_list) ==
    LET I == {i \in 1..Len(rec_list) : rec_list[i].id # ""}
    IN  IF I = {} THEN 0 ELSE CHOOSE i \in I : \A j \in I : i <= j

\* the result of a work lookup: the variable `work` (a term, or NoWork for None), the
\* triples added to g, and whether an exception left the function
NoWork == BNode(<<"<None>">>)
WorkRes(work, triples, raised) == [work |-> work, triples |-> triples, raised |-> raised]

\* lines 568-574 and 615-620: the Work entity
WorkTriples(work, name) ==
    {<<work, Term(RDF, "type"), Term(MO, "MusicalWork")>>}
    \cup (IF name \notin {None, ""}
          THEN {<<work, Term(DCTERMS, "title"), Literal(<<name>>)>>,
                <<work, Term(RDFS, "label"), Literal(<<"Work: ", name>>)>>}
          ELSE {})

\* lines 555-558: the external tracks whose number ends with the track number
MatchingTracks(tracks, track_num) ==
    IF \E i \in 1..Len(tracks) : ~tracks[i].numIsStr THEN <<>>
    ELSE SelectSeq(tracks, LAMBDA t : LastPart(t.trackNumber) = Str(track_num))

\* lines 563-577: the first work of recordingOf that carries an '@id'
WorkOfTrack(mt) ==
    IF Len(mt) = 1 /\ mt[1].hasRec /\ FirstWithId(mt[1].recordingOf) # 0
    THEN LET r == mt[1].recordingOf[FirstWithId(mt[1].recordingOf)]
         IN  WorkRes(Term(WORK, r.id), WorkTriples(Term(WORK, r.id), r.name), FALSE)
    ELSE WorkRes(NoWork, {}, FALSE)

\* lines 550-579
WorkFromJsonLd(ldj, t, track_num) ==
    IF ~Truthy(ldj) THEN WorkRes(NoWork, {}, FALSE)
    ELSE IF ldj.shape = "list" THEN WorkRes(NoWork, {}, TRUE)   \* line 552: a list has no .get
    ELSE LET mt == MatchingTracks(ldj.track, track_num)
         IN  IF Len(mt) > 1
             THEN IF "title" \notin DOMAIN t
                  THEN WorkRes(NoWork, {}, TRUE)                 \* line 560: KeyError
                  ELSE WorkOfTrack(SelectSeq(mt, LAMBDA x : FuzzRatio(x.name, t["title"]) > 90))
             ELSE WorkOfTrack(mt)

RECURSIVE RecordingsMap(_)
\* lines 591-598
RecordingsMap(tracks) ==
    IF tracks = <<>> THEN EmptyMap
    ELSE LET tr == tracks[Len(tracks)]
             rest == RecordingsMap(SubSeq(tracks, 1, Len(tracks) - 1))
         IN  IF LastPart(tr.number) # "" /\ tr.rec_id \notin {None, ""}
             THEN Put(rest, LastPart(tr.number), tr.rec_id)
             ELSE rest

\* lines 584-601: the map made from ws_release_json, or from a fetch when that is empty
NewRecordingsMap(wsj, fb) ==
    LET data == IF Truthy(wsj) THEN wsj ELSE Fetched(fb)
    IN  IF ~Truthy(wsj) /\ fb.kind # "json" THEN EmptyMap
        ELSE IF data.shape \in {"null", "list"} THEN EmptyMap
        ELSE RecordingsMap(data.track)

FirstWork(rels) ==
    LET I == {i \in 1..Len(rels) : rels[i].hasWork /\ rels[i].id \notin {None, ""}}
    IN  IF I = {} THEN 0 ELSE CHOOSE i \in I : \A j \in I : i <= j

\* lines 603-623
WorkFromRecording(ro) ==
    IF ro.kind = "json" /\ FirstWork(ro.relations) # 0
    THEN LET w == ro.relations[FirstWork(ro.relations)]
         IN  WorkRes(Term(WORK, w.id), WorkTriples(Term(WORK, w.id), w.title), FALSE)
    ELSE WorkRes(NoWork, {}, FALSE)

\* lines 508-524: the peaks triple; compute_peaks returns nothing the caller reads
PeaksTriples(t, c, track_num, exists, peaks_root) ==
    IF "file" \in DOMAIN t /\ t["file"] # "__SKIP__" /\ exists /\ peaks_root
    THEN {<<URIRef(SSVSignal \o c \o <<"#", Str(track_num)>>), Term(SSVO, "peaks"),
            URIRef(SSVPeaks \o c \o <<"/", Str(track_num), ".peaks.json">>)>>}
    ELSE {}

\* lines 525-529
SignalTriples(t, c, track_num) ==
    LET signal == URIRef(SSVSignal \o c \o <<"#", Str(track_num)>>)
    IN  {<<signal, Term(RDF, "type"), Term(MO, "Signal")>>,
         <<signal, Term(MO, "published_as"), URIRef(SSVTrack \o c \o <<"#", Str(track_num)>>)>>}
        \cup (IF "isrc" \in DOMAIN t
              THEN {<<signal, Term(MO, "isrc"), Term(ISRC, t["isrc"])>>} ELSE {})

TrackTriples_Mut(t, c, track_num) ==
    {<<URIRef(SSVTrack \o c \o <<"#", Str(track_num)>>), Term(RDF, "type"), Term(MO, "Track")>>,
     <<URIRef(SSVTrack \o c \o <<"#", Str(track_num)>>), Term(MO, "track_number"),
       TypedLiteral(<<Str(track_num)>>, "xsd:integer")>>}
    \cup (IF ValOk(Get(t, "file"))
          THEN {<<URIRef(SSVTrack \o c \o <<"#", Str(track_num)>>), Term(SSVO, "localPath"),
                  Literal(<<t["file"]>>)>>}
          ELSE {})

\* lines 532-542: the triples added to trackGraph and to private alike
TrackTriples(t, c, track_num) ==
    LET track == URIRef(SSVTrack \o c \o <<"#", Str(track_num)>>)
    IN  {<<track, Term(RDF, "type"), Term(MO, "Track")>>,
         <<track, Term(MO, "track_number"), TypedLiteral(<<Str(track_num)>>, "xsd:integer")>>}
        \cup (IF "mbz_track" \in DOMAIN t
              THEN {<<track, Term(MO, "musicbrainz"), Term(TRACK, t["mbz_track"])>>} ELSE {})
        \cup (IF ValOk(Get(t, "title"))
              THEN {<<track, Term(RDFS, "label"), Literal(<<"Track: ", t["title"]>>)>>} ELSE {})

\* lines 543-545
LocalPathTriples(t, c, track_num) ==
    IF ValOk(Get(t, "file"))
    THEN {<<URIRef(SSVTrack \o c \o <<"#", Str(track_num)>>), Term(SSVO, "localPath"),
            Literal(<<t["file"]>>)>>}
    ELSE {}

\* lines 520 and 546-547
AvailableAsTriples(t, c, track_num, exists, peaks_root) ==
    IF "file" \in DOMAIN t /\ t["file"] # "__SKIP__" /\ exists /\ peaks_root
    THEN {<<URIRef(SSVTrack \o c \o <<"#", Str(track_num)>>), Term(MO, "available_as"),
            URIRef(SSVAudio \o c \o <<"/", t["file"]>>)>>}
    ELSE {}

\* lines 626-632
PerformanceTriples(t, c, track_num, work) ==
    LET performance == URIRef(SSVPerformance \o c \o <<"#", Str(track_num)>>)
    IN  {<<performance, Term(RDF, "type"), Term(MO, "Performance")>>,
         <<performance, Term(MO, "recorded_as"), URIRef(SSVSignal \o c \o <<"#", Str(track_num)>>)>>}
        \cup (IF work # NoWork THEN {<<performance, Term(MO, "performance_of"), work>>} ELSE {})
        \cup (IF ValOk(Get(t, "title"))
              THEN {<<performance, Term(RDFS, "label"), Literal(<<"Performance: ", t["title"]>>)>>}
              ELSE {})

\* lines 635-645
PerformerTriples(t, c, track_num) ==
    LET performer == URIRef(SSVPerformer \o c \o <<"#", Str(track_num)>>)
    IN  {<<performer, Term(RDF, "type"), Term(MO, "MusicArtist")>>,
         <<performer, Term(MO, "performed"), URIRef(SSVPerformance \o c \o <<"#", Str(track_num)>>)>>}
        \cup (IF ValOk(Get(t, "performer"))
              THEN {<<performer, Term(FOAF, "name"), Literal(<<t["performer"]>>)>>,
                    <<performer, Term(RDFS, "label"), Literal(<<"Performer: ", t["performer"]>>)>>}
              ELSE {})
        \cup (IF "mbz_artist" \in DOMAIN t
              THEN {<<performer, Term(MO, "musicbrainz"), Term(ARTIST, t["mbz_artist"])>>} ELSE {})

\* lines 495-661: the loop body for the next track of the document
BuildTrack ==
    /\ bpc = "tracks"
    /\ tpos < Len(bdoc.keys)
    /\ LET track_num == bdoc.keys[tpos + 1]
           t == bdoc.trk[track_num]
           c == ssvUriComponent
           w1 == WorkFromJsonLd(mbz_album_json, t, track_num)
           \* line 582
           fallback == w1.work = NoWork /\ mbid_clean # None
           \* lines 583-588
           fetchMap == fallback /\ release_recordings_map.isNone /\ ~Truthy(ws_release_json)
       IN  \* os.path.exists(audio_path) is read at line 517, then compute_peaks writes
           \* the peaks file or logs an error and returns (lines 178-208); the answers
           \* of the fetches of lines 588 and 606 when they are made
           \E exists \in IF "file" \in DOMAIN t /\ peaks_root_dir THEN BOOLEAN ELSE {FALSE} :
           \E computed \in IF exists /\ t["file"] # "__SKIP__" THEN BOOLEAN ELSE {FALSE},
              fb \in IF fetchMap THEN WsOutcomes ELSE {NoFetch} :
            LET rmap == IF fallback /\ release_recordings_map.isNone
                        THEN [isNone |-> FALSE, m |-> NewRecordingsMap(ws_release_json, fb)]
                        ELSE release_recordings_map
                rec_id == IF fallback THEN Get(rmap.m, Str(track_num)) ELSE None
            IN  \E ro \in IF rec_id # None THEN RecOutcomes ELSE {NoRecFetch} :
                 LET w2 == IF rec_id # None THEN WorkFromRecording(ro)
                           ELSE WorkRes(NoWork, {}, FALSE)
                     work == IF w1.work # NoWork THEN w1.work ELSE w2.work
                     recG == recordGraph \cup
                             {<<URIRef(SSVRecord \o c), Term(MO, "track"),
                                URIRef(SSVTrack \o c \o <<"#", Str(track_num)>>)>>}
                     relG == releaseGraph \cup
                             {<<URIRef(SSVRelease \o c), Term(MO, "publication_of"),
                                URIRef(SSVSignal \o c \o <<"#", Str(track_num)>>)>>}
                     sigG == signalGraph
                             \cup PeaksTriples(t, c, track_num, exists, peaks_root_dir)
                             \cup SignalTriples(t, c, track_num)
                     trkG == trackGraph \cup TrackTriples(t, c, track_num)
                             \cup AvailableAsTriples(t, c, track_num, exists, peaks_root_dir)
                     perfG == PerformanceTriples(t, c, track_num, work)
                     perfrG == PerformerTriples(t, c, track_num)
                 IN  IF w1.raised
                     THEN /\ bpc' = "raised"
                          /\ UNCHANGED <<release_recordings_map, tpos, g, private, releaseGraph,
                                         recordGraph, trackGraph, signalGraph, performanceGraphs,
                                         performerGraphs, locals_dict, mbcalls, peaks_files>>
                     ELSE /\ bpc' = "tracks"
                          /\ peaks_files' = IF computed THEN peaks_files \cup {track_num}
                                            ELSE peaks_files
                          /\ tpos' = tpos + 1
                          /\ release_recordings_map' = rmap
                          /\ mbcalls' = mbcalls
                                \o (IF fetchMap THEN <<"release-recordings">> ELSE <<>>)
                                \o (IF rec_id # None THEN <<"recording">> ELSE <<>>)
                          /\ recordGraph' = recG
                          /\ releaseGraph' = relG
                          /\ signalGraph' = sigG
                          /\ trackGraph' = trkG
                          /\ private' = private \cup TrackTriples(t, c, track_num)
                                                \cup LocalPathTriples(t, c, track_num)
                          /\ performanceGraphs' = Append(performanceGraphs, perfG)
                          /\ performerGraphs' = Append(performerGraphs, perfrG)
                          /\ locals_dict' = [locals_dict EXCEPT
                                 !["record"] = Append(@, Ref("recordGraph", 0)),
                                 !["track"] = Append(@, Ref("trackGraph", 0)),
                                 !["signal"] = Append(@, Ref("signalGraph", 0)),
                                 !["performance"] = Append(@, Ref("performanceGraph", tpos + 1)),
                                 !["performer"] = Append(@, Ref("performerGraph", tpos + 1))]
                          /\ g' = g \cup w1.triples \cup w2.triples \cup relG
                                    \cup releaseEventGraph \cup recG \cup trkG \cup sigG
                                    \cup perfG \cup perfrG
    /\ UNCHANGED <<bdoc, roots, peaks_root_dir, ssvUriComponent, mbid_clean, mbz_album_json,
                   ws_release_json, releaseEventGraph>>
    /\ UNCHANGED notBuild

\* line 663: return g, private, locals_dict
BuildReturn ==
    /\ bpc = "tracks"
    /\ tpos = Len(bdoc.keys)
    /\ bpc' = "done"
    /\ UNCHANGED <<bdoc, roots, peaks_root_dir, ssvUriComponent, mbid_clean, mbz_album_json,
                   ws_release_json, release_recordings_map, tpos, g, private, releaseGraph,
                   releaseEventGraph, recordGraph, trackGraph, signalGraph, performanceGraphs,
                   performerGraphs, locals_dict, mbcalls, peaks_files>>
    /\ UNCHANGED notBuild

\* the graph a reference of locals_dict points at
Deref(ref) ==
    CASE ref.obj = "releaseGraph" -> releaseGraph
      [] ref.obj = "releaseEventGraph" -> releaseEventGraph
      [] ref.obj = "recordGraph" -> recordGraph
      [] ref.obj = "trackGraph" -> trackGraph
      [] ref.obj = "signalGraph" -> signalGraph
      [] ref.obj = "performanceGraph" -> performanceGraphs[ref.ix]
      [] OTHER -> performerGraphs[ref.ix]

-----------------------------------------------------------------------------
(* __main__, lines 789-855: writing the outputs                            *)

\* an output of the run: the aggregate graph, the private graph or the entity graph
\* of one subdir, for "main" or for a branch
Artifact(kind, ctx) == [kind |-> kind, ctx |-> ctx]

\* lines 801-811 (and 846-855), 819-831: the outputs of one context in the order they
\* are written; audio: -A was given; dir: -D was given.  Of the seven subdirs of
\* locals_dict the first MaxSubdirs are written, one entity graph each.
OutputsOf(ctx, audio, dir) ==
    <<Artifact("aggregate", ctx)>>
    \o (IF audio THEN <<Artifact("private", ctx)>> ELSE <<>>)
    \o (IF dir THEN [i \in 1..MaxSubdirs |->
                        Artifact(<<"release", "release_event", "record", "track", "signal",
                                   "performance", "performer">>[i], ctx)]
        ELSE <<>>)

RECURSIVE OutputPlan(_, _, _)
\* lines 796-855: main first, then every branch of -b
OutputPlan(branches, audio, dir) ==
    IF branches = <<>> THEN OutputsOf("main", audio, dir)
    ELSE OutputPlan(SubSeq(branches, 1, Len(branches) - 1), audio, dir)
         \o OutputsOf(branches[Len(branches)], audio, dir)

\* no file under any of the subdirs
NoFiles == [s \in Subdirs |-> EmptyMap]

WriteIdle ==
    /\ wpc = "idle" /\ plan = <<>> /\ wpos = 0 /\ written = {}
    /\ esub = 0 /\ entity_files = NoFiles

\* line 787 has returned; the options of the run decide what is written
WriteStart ==
    /\ wpc = "write"
    /\ \E k \in 0..MaxBranches, audio \in BOOLEAN, dir \in BOOLEAN :
        plan = OutputPlan(SubSeq(<<"dev", "v2", "v3">>, 1, k), audio, dir)
    /\ wpos = 0
    /\ written = {}
    /\ esub = 0 /\ entity_files = NoFiles

\* the next artifact: os.makedirs of its directory (lines 792, 808, 827, 852), outside
\* any try, then serializeRdf (lines 665-675), which logs what it catches
WriteArtifact ==
    /\ wpc = "write"
    /\ wpos < Len(plan)
    /\ \E outcome \in {"written", "serialize fails", "makedirs fails"} :
        IF outcome = "makedirs fails"
        THEN wpc' = "raised" /\ UNCHANGED <<wpos, written>>
        ELSE /\ wpos' = wpos + 1
             /\ written' = IF outcome = "written" THEN written \cup {wpos + 1} ELSE written
             /\ wpc' = wpc
    /\ plan' = plan
    /\ UNCHANGED <<esub, entity_files>>
    /\ UNCHANGED notWrite

\* the loops of lines 796-855 have ended
WriteEnd ==
    /\ wpc = "write"
    /\ wpos = Len(plan)
    /\ wpc' = "done"
    /\ UNCHANGED <<plan, wpos, written, esub, entity_files>>
    /\ UNCHANGED notWrite

\* lines 343-345: the keys of locals_dict in the order .items() yields them
SubdirOrder ==
    <<"release", "release_event", "record", "track", "signal", "performance", "performer">>

RECURSIVE WriteItems(_, _, _, _)
\* lines 853-855 (809-811 for main under -b): `for local_graph, key in items`
\* serializes each graph to subdir_path/key, replacing what an earlier item wrote
\* there; the key of every item of the document is its ssvUriComponent.  oks[i]:
\* the serialization of item i succeeded (serializeRdf, lines 665-675, logs a
\* failure and returns, and then no complete file is at the path).
WriteItems(files, items, oks, i) ==
    IF i > Len(items) THEN files
    ELSE WriteItems(Put(files, ssvUriComponent,
                        [complete |-> oks[i],
                         graph |-> IF oks[i] THEN Deref(items[i]) ELSE {}]),
                    items, oks, i + 1)

\* lines 850-855: one iteration of `for subdir, items in locals_dict.items()`, run
\* after build_rdf_content has returned (line 787): os.makedirs of the subdir,
\* outside any try, then the loop over its items
WriteSubdir ==
    /\ wpc = "entities"
    /\ bpc = "done"
    /\ esub < Len(SubdirOrder)
    /\ LET subdir == SubdirOrder[esub + 1]
           items == locals_dict[subdir]
       IN  \E made \in BOOLEAN, oks \in [1..Len(items) -> BOOLEAN] :
            IF ~made
            THEN wpc' = "raised" /\ UNCHANGED <<esub, entity_files>>
            ELSE /\ wpc' = wpc
                 /\ esub' = esub + 1
                 /\ entity_files' =
                        [entity_files EXCEPT
                            ![subdir] = WriteItems(@, items, oks, 1)]
    /\ UNCHANGED <<plan, wpos, written>>
    /\ UNCHANGED notWrite

\* line 855: the loop over locals_dict has ended
WriteEntitiesEnd ==
    /\ wpc = "entities"
    /\ bpc = "done"
    /\ esub = Len(SubdirOrder)
    /\ wpc' = "done"
    /\ UNCHANGED <<plan, wpos, written, esub, entity_files>>
    /\ UNCHANGED notWrite

-----------------------------------------------------------------------------
(* Specifications *)

ParseNext == OpenFile \/ OpenFails \/ ReadLine \/ EndOfFile

\* parse_cue_file on every file of at most MaxLines lines
InitParse == ParseStart /\ RemapIdle /\ GateIdle /\ BuildIdle /\ WriteIdle
SpecParse == InitParse /\ [][ParseNext]_vars

\* _remap_graph_for_branch on every graph of RemapGraphs and branch of Branches
InitRemap == ParseIdle /\ RemapStart /\ GateIdle /\ BuildIdle /\ WriteIdle
SpecRemap == InitRemap /\ [][Remap]_vars

GateNext ==
    \/ Tick
    \/ \E c \in callers : Call(c)
    \/ \E c \in callers : ComputeWait(c)
    \/ \E c \in callers : Sleep(c)
    \/ \E c \in callers : Send(c)
    \/ \E c \in callers : Respond(c)
    \/ \E c \in callers : Raise(c)

\* a single caller of mb_get, as in build_rdf_content
InitGate == ParseIdle /\ RemapIdle /\ GateStart(1) /\ BuildIdle /\ WriteIdle
SpecGate == InitGate /\ [][GateNext]_vars

RaceNext ==
    \/ Tick
    \/ \E c \in callers : Call(c)
    \/ \E c \in callers : ComputeWait(c)
    \/ \E c \in callers : Sleep(c)
    \/ \E c \in callers : Send(c)
    \/ \E c \in callers : Respond(c)

BuildNext == BuildHeader \/ BuildTrack \/ BuildReturn

\* build_rdf_content on one document of BuildDocs, with every answer of musicbrainz.org
InitBuild == ParseIdle /\ RemapIdle /\ GateIdle /\ BuildStart /\ WriteIdle
SpecBuild == InitBuild /\ [][BuildNext]_vars

\* the outputs of a run, with every outcome of creating a directory and of serializing
InitWrite == ParseIdle /\ RemapIdle /\ GateIdle /\ BuildIdle /\ WriteStart
SpecWrite == InitWrite /\ [][WriteArtifact \/ WriteEnd]_vars

\* two concurrent callers of mb_get, every request answered with a response
InitGateRace == ParseIdle /\ RemapIdle /\ GateStart(2) /\ BuildIdle /\ WriteIdle
SpecGateRace == InitGateRace /\ [][RaceNext]_vars

-----------------------------------------------------------------------------
(* Claims about parse_cue_file, checked under SpecParse *)

\* a loop iteration was executed in this step
Iteration == pc = "loop" /\ nread' = nread + 1

\* the file bound to each track of a document (NoFile: none)
FileBindings(p) ==
    [n \in DOMAIN p.trk |-> IF "file" \in DOMAIN p.trk[n] THEN p.trk[n]["file"] ELSE NoFile]

\* C1: whatever the lines of a readable file are, the loop never raises and the
\* returned document has its file_path and header; while no track is open there is
\* no track record, so no track field was written.
C1_ParseTotal ==
    /\ pc # "raised"
    /\ (pc \in {"loop", "done"} => {"file_path", "header"} \subseteq parsed.skeys)
    /\ (current_track = NoTrack => DOMAIN parsed.trk = {} /\ parsed.keys = <<>>)

\* C1 witness: a TITLE and then an ISRC line were read before any TRACK line and
\* the parse returned.
C1_Witness ==
    /\ pc = "done"
    /\ current_track = NoTrack
    /\ line.kw = "ISRC"
    /\ "title" \in DOMAIN parsed.header

\* C2: the state leaves Header (current_track is None) only in an iteration on a
\* line matching TRACK <n> AUDIO, and never returns to Header.
C2_HeaderBodyTransition ==
    [][/\ (current_track = NoTrack /\ current_track' # NoTrack
            => Iteration /\ TrackMatch(line'))
       /\ (current_track # NoTrack => current_track' # NoTrack)
       /\ (Iteration /\ ~TrackMatch(line')
            => (current_track' = NoTrack) = (current_track = NoTrack))]_vars

\* C2 witness: in Body, after the transition, a FILE line has been read.
C2_Witness ==
    /\ current_track # NoTrack
    /\ FileMatch(line)
    /\ nread >= 2

\* C3 (amended): a TRACK n AUDIO line read while a non-empty name is buffered binds
\* that name to track n; the buffered name is the name of the last FILE "<name>" WAVE
\* line read; a line that is no TRACK n AUDIO line changes no track's file.
C3_FileBindsNextTrack ==
    [][Iteration =>
        /\ (TrackMatch(line') /\ current_file \notin {NoFile, ""}
             => FileBindings(parsed')[IntOf(line'.num)] = current_file)
        /\ (FileMatch(line') => current_file' = line'.arg)
        /\ (~FileMatch(line') => current_file' = current_file)
        /\ (~TrackMatch(line') => FileBindings(parsed') = FileBindings(parsed))]_vars

\* C3 witness: FILE "a.wav" WAVE bound to a track, then FILE "b.wav" WAVE read
\* last and bound to no track at the end of input.
C3_Witness ==
    /\ pc = "done"
    /\ FileMatch(line) /\ line.arg = "b.wav"
    /\ parsed.keys # <<>>
    /\ \A n \in DOMAIN parsed.trk : FileBindings(parsed)[n] = "a.wav"

\* C3 as stated: every FILE "<name>" WAVE name, the empty one included, is bound
\* to the next track opened.
C3_Original ==
    [][Iteration =>
        /\ (TrackMatch(line') /\ current_file # NoFile
             => FileBindings(parsed')[IntOf(line'.num)] = current_file)
        /\ (FileMatch(line') => current_file' = line'.arg)
        /\ (~FileMatch(line') => current_file' = current_file)
        /\ (~TrackMatch(line') => FileBindings(parsed') = FileBindings(parsed))]_vars

\* C4 as stated: a track opened when no FILE line was read since the previous
\* track was opened has no bound file.
C4_OneSlotBuffer ==
    [][Iteration /\ TrackMatch(line') /\ ~fileSinceTrack
        => FileBindings(parsed')[IntOf(line'.num)] = NoFile]_vars

-----------------------------------------------------------------------------
(* Claims about the branch remapping, checked under SpecRemap *)

\* C6 as stated: remapping with the empty branch name returns the triples of g.
C6_EmptyBranchIdentity ==
    rpc = "done" /\ branch = <<>> => ng = graph

\* a term the remapping must leave alone: a literal, a blank node, a URI outside
\* the root namespace or a URI under the audio or vocabulary namespace
BranchInvariantTerm(t) ==
    \/ t.kind \in {"lit", "bnode"}
    \/ ~StartsWith(t.s, SSVBase)
    \/ StartsWith(t.s, SSVAudio)
    \/ StartsWith(t.s, SSVO)

\* root + rest rewritten to root + seg + "/" + rest
Rebased(t, seg) ==
    IF BranchInvariantTerm(t) THEN t
    ELSE URIRef(SSVBase \o seg \o <<"/">> \o From(t.s, Len(SSVBase)))

\* C7 (amended): for a non-empty branch name b the returned graph holds, for
\* every triple of the input, the triple whose terms are left alone when
\* branch-invariant and are otherwise rewritten from root + rest to
\* root + b' + "/" + rest, b' being b without its leading and trailing "/";
\* the input graph is not modified.
C7_RemapRewrites ==
    [][rpc = "call" /\ rpc' = "done" /\ branch # <<>> =>
        /\ graph' = graph
        /\ ng' = {<<Rebased(t[1], Strip(branch, "/")), Rebased(t[2], Strip(branch, "/")),
                    Rebased(t[3], Strip(branch, "/"))>> : t \in graph}
        /\ \A t \in graph : \A i \in 1..3 :
              (IsURIRef(t[i]) /\ (StartsWith(t[i].s, SSVAudio) \/ StartsWith(t[i].s, SSVO)))
              => \E u \in ng' : u[i] = t[i]]_vars

\* C7 witness: a graph with a track URI, a vocabulary predicate and an audio
\* object was remapped onto branch "dev/" and the track URI was rewritten.
C7_Witness ==
    /\ rpc = "done"
    /\ branch = <<"dev", "/">>
    /\ graph = {<<URIRef(SSVTrack \o <<"x">>), URIRef(SSVO \o <<"peaks">>), URIRef(SSVAudio \o <<"x">>)>>}
    /\ ng = {<<URIRef(SSVBase \o <<"dev", "/", "data", "/", "track", "/", "x">>),
               URIRef(SSVO \o <<"peaks">>), URIRef(SSVAudio \o <<"x">>)>>}

\* C7 as stated: the rewritten URI is root + b + "/" + rest for the branch name b
\* as given.
C7_Original ==
    [][rpc = "call" /\ rpc' = "done" /\ branch # <<>> =>
        /\ graph' = graph
        /\ ng' = {<<Rebased(t[1], branch), Rebased(t[2], branch), Rebased(t[3], branch)>> :
                    t \in graph}]_vars

-----------------------------------------------------------------------------
(* Claims about mb_get, checked under SpecGate and SpecGateRace *)

\* C8 as stated: with a single caller, every request is sent at least the minimum
\* interval after the previous request was sent, whatever that request's outcome.
C8_MinIntervalSingleCaller ==
    \A i \in 2..Len(sends) : sends[i] - sends[i - 1] >= MinIntervalTicks

\* C9 as stated: with concurrent callers, no two requests are sent less than the
\* minimum interval apart.
C9_MinIntervalConcurrent ==
    \A i, j \in 1..Len(sends) : i < j => sends[j] - sends[i] >= MinIntervalTicks

-----------------------------------------------------------------------------
(* Claims about build_rdf_content, checked under SpecBuild *)

\* the document's entities
RecordOf(c) == URIRef(SSVRecord \o c)
ReleaseOf(c) == URIRef(SSVRelease \o c)
TrackEntity(kind, c, n) == URIRef(SSVData(kind) \o c \o <<"#", Str(n)>>)
IsA(gr, entity, class) == <<entity, Term(RDF, "type"), Term(MO, class)>> \in gr

\* C5 as stated: the track_count literal attached to the Record is the number of
\* track entries of the document.
C5_TrackCountIsNumberOfTracks ==
    bpc \in {"tracks", "done"} =>
        \A t \in recordGraph :
            t[1] = RecordOf(ssvUriComponent) /\ t[2] = Term(MO, "track_count")
            => t[3] = TypedLiteral(<<Str(Len(bdoc.keys))>>, "xsd:integer")

\* C10 as stated: for a document with a valid release identifier, whatever the
\* fetches answer, build_rdf_content does not raise and the returned full graph
\* holds the Release, the Record and every track's Track, Signal, Performance and
\* Performer.
C10_EnrichmentNeverBlocks ==
    MbidClean(bdoc.header) # None =>
        /\ bpc # "raised"
        /\ bpc = "done" =>
            /\ IsA(g, ReleaseOf(ssvUriComponent), "Release")
            /\ IsA(g, RecordOf(ssvUriComponent), "Record")
            /\ \A i \in 1..Len(bdoc.keys) :
                /\ IsA(g, TrackEntity("track", ssvUriComponent, bdoc.keys[i]), "Track")
                /\ IsA(g, TrackEntity("signal", ssvUriComponent, bdoc.keys[i]), "Signal")
                /\ IsA(g, TrackEntity("performance", ssvUriComponent, bdoc.keys[i]), "Performance")
                /\ IsA(g, TrackEntity("performer", ssvUriComponent, bdoc.keys[i]), "MusicArtist")

-----------------------------------------------------------------------------
(* Media root resolution, checked under SpecRoots: build_rdf_content on    *)
(* documents at several places, with root lists that hold nested roots,    *)
(* the filesystem root and roots that match nothing.                       *)

\* file_path of the document: /m/a/c.cue, /m/c.cue, /ma/c.cue, /c.cue
RootPaths ==
    { <<"/", "m", "/", "a", "/", "c.cue">>, <<"/", "m", "/", "c.cue">>,
      <<"/", "m", "a", "/", "c.cue">>, <<"/", "c.cue">> }

\* media_root_paths: one or two of /, /m, /m/, /m/a, /x
RootCandidates ==
    { <<"/">>, <<"/", "m">>, <<"/", "m", "/">>, <<"/", "m", "/", "a">>, <<"/", "x">> }
RootChoices ==
    {<<r>> : r \in RootCandidates}
    \cup {rs \in RootCandidates \X RootCandidates : rs[1] # rs[2]}

InitRoots ==
    /\ ParseIdle /\ RemapIdle /\ GateIdle /\ WriteIdle
    /\ bpc = "start"
    /\ bdoc \in {ParseCueFile(path, f) : path \in RootPaths, f \in BodyLines(1)}
    /\ roots \in RootChoices
    /\ peaks_root_dir = TRUE      \* lines 781-785: main always passes a directory
    /\ ssvUriComponent = <<>> /\ mbid_clean = None /\ mbz_album_json = JNull
    /\ ws_release_json = JNull /\ release_recordings_map = NoMap /\ tpos = 0
    /\ g = {} /\ private = {} /\ releaseGraph = {} /\ releaseEventGraph = {}
    /\ recordGraph = {} /\ trackGraph = {} /\ signalGraph = {}
    /\ performanceGraphs = <<>> /\ performerGraphs = <<>>
    /\ locals_dict = [s \in Subdirs |-> <<>>] /\ mbcalls = <<>> /\ peaks_files = {}
SpecRoots == InitRoots /\ [][BuildNext]_vars

\* a directory without its trailing separators ("/" itself becomes the empty path)
Dir(path) == RStrip(path, "/")
\* root is the parent directory or one of its ancestors
IsDirPrefix(root, parent) == StartsWith(Dir(parent) \o <<"/">>, Dir(root) \o <<"/">>)
\* the longest candidate that is a directory-prefix of parent
LongestPrefix(cands, parent) ==
    LET M == {i \in 1..Len(cands) : IsDirPrefix(cands[i], parent)}
    IN  cands[CHOOSE i \in M : \A j \in M : Len(Dir(cands[j])) <= Len(Dir(cands[i]))]
\* the remainder of parent after root
Remainder(root, parent) == LStrip(From(Dir(parent), Len(Dir(root))), "/")

\* C11 as stated: when some candidate root is a directory-prefix of the document's
\* parent directory (nested roots and the root "/" included), the identifier
\* component is the remainder of the parent path after the longest such candidate.
C11_LongestPrefixRoot ==
    LET parent == ParentPath(bdoc.file_path)
    IN  (bpc \in {"tracks", "done"} /\ \E i \in 1..Len(roots) : IsDirPrefix(roots[i], parent))
        => ssvUriComponent = QuoteComponent(Remainder(LongestPrefix(roots, parent), parent))

-----------------------------------------------------------------------------
(* Field values, checked under SpecFields: build_rdf_content on documents  *)
(* whose header and track fields are missing, the sentinel, or a value,    *)
(* and whose track is or is not bound to a file.                           *)

Sentinel == "__NONE__"

\* the line `KW value` of a cue file, or no line when the field is missing
FieldLine(kw, v) == IF v = None THEN <<>> ELSE <<Ln(kw, "", v, "")>>
\* the line `REM KEY value`
RemLine(key, v) == IF v = None THEN <<>> ELSE <<Ln("REM", "", key, v)>>

\* the line `FILE "name" WAVE`
FileLine(v) == IF v = None THEN <<>> ELSE <<Ln("FILE", "", v, "WAVE")>>

FieldFiles ==
    { FieldLine("TITLE", h) \o FieldLine("CATALOG", h) \o RemLine("DATE", h)
      \o FileLine(fi) \o <<Ln("TRACK", "01", "", "AUDIO")>>
      \o FieldLine("TITLE", ti) \o FieldLine("PERFORMER", pe) \o FieldLine("ISRC", is)
      \o RemLine("MUSICBRAINZ_TRACK_ID", mt) \o RemLine("MUSICBRAINZ_ARTIST_ID", ma) :
        h \in {None, Sentinel, "1999"}, ti \in {None, Sentinel, "T1"},
        pe \in {None, Sentinel, "P1"}, is \in {None, Sentinel, "I1"},
        mt \in {None, Sentinel, "t1"}, ma \in {None, Sentinel, "a1"}, fi \in {None, "a.wav"} }

InitFields ==
    /\ ParseIdle /\ RemapIdle /\ GateIdle /\ WriteIdle
    /\ bpc = "start"
    /\ bdoc \in {ParseCueFile(CuePath, f) : f \in FieldFiles}
    /\ roots \in RootLists
    /\ peaks_root_dir \in BOOLEAN
    /\ ssvUriComponent = <<>> /\ mbid_clean = None /\ mbz_album_json = JNull
    /\ ws_release_json = JNull /\ release_recordings_map = NoMap /\ tpos = 0
    /\ g = {} /\ private = {} /\ releaseGraph = {} /\ releaseEventGraph = {}
    /\ recordGraph = {} /\ trackGraph = {} /\ signalGraph = {}
    /\ performanceGraphs = <<>> /\ performerGraphs = <<>>
    /\ locals_dict = [s \in Subdirs |-> <<>>] /\ mbcalls = <<>> /\ peaks_files = {}
SpecFields == InitFields /\ [][BuildNext]_vars

\* the sub-graphs recorded in locals_dict
SubGraphs == UNION {{Deref(locals_dict[s][i]) : i \in 1..Len(locals_dict[s])} : s \in Subdirs}
\* the triples of the full graph and of every sub-graph
PublicTriples == g \cup UNION SubGraphs
\* some public triple has this subject and predicate
Emitted(subject, predicate) == \E t \in PublicTriples : t[1] = subject /\ t[2] = predicate
\* the field is missing, has no text, or is the sentinel
NoValue(d, k) == k \notin DOMAIN d \/ d[k] \in {"", " ", Sentinel}

\* C12 as stated: after build_rdf_content returned, a header or track field that is
\* missing, has no text or is "__NONE__" has no triple derived from it in the full
\* graph or in any sub-graph.
C12_NoPlaceholderTriples ==
    bpc = "done" =>
        LET c == ssvUriComponent
            h == bdoc.header
        IN  /\ NoValue(h, "title") =>
                /\ ~Emitted(ReleaseOf(c), Term(DCTERMS, "title"))
                /\ ~Emitted(ReleaseOf(c), Term(RDFS, "label"))
                /\ ~Emitted(RecordOf(c), Term(RDFS, "label"))
            /\ NoValue(h, "catalog") => ~Emitted(ReleaseOf(c), Term(MO, "catalogue_number"))
            /\ NoValue(h, "date") => ~Emitted(ReleaseOf(c), Term(DCTERMS, "issued"))
            /\ \A n \in DOMAIN bdoc.trk :
                LET t == bdoc.trk[n]
                IN  /\ NoValue(t, "title") =>
                        /\ ~Emitted(TrackEntity("track", c, n), Term(RDFS, "label"))
                        /\ ~Emitted(TrackEntity("performance", c, n), Term(RDFS, "label"))
                    /\ NoValue(t, "performer") =>
                        /\ ~Emitted(TrackEntity("performer", c, n), Term(FOAF, "name"))
                        /\ ~Emitted(TrackEntity("performer", c, n), Term(RDFS, "label"))
                    /\ NoValue(t, "isrc") =>
                        ~Emitted(TrackEntity("signal", c, n), Term(MO, "isrc"))
                    /\ NoValue(t, "mbz_track") =>
                        ~Emitted(TrackEntity("track", c, n), Term(MO, "musicbrainz"))
                    /\ NoValue(t, "mbz_artist") =>
                        ~Emitted(TrackEntity("performer", c, n), Term(MO, "musicbrainz"))

-----------------------------------------------------------------------------
(* Claims about the graphs build_rdf_content returns                        *)

\* C13 as stated: after build_rdf_content returned, every triple of the full graph
\* (those of labels, publishers and works included) is in one of the seven
\* sub-graphs recorded for the document.
C13_FullGraphInSubGraphs ==
    bpc = "done" => g \subseteq UNION SubGraphs

\* a triple carrying a track's raw local file path
IsLocalPath(t) == t[2] = Term(SSVO, "localPath")

\* C14: at no point of build_rdf_content does a local-path triple appear in the full
\* graph or in a sub-graph, and when it has returned none appears in the branch
\* variants made from them either (a branch variant is made triple by triple).
C14_PrivateNeverPublic ==
    LET public == PublicTriples
    IN  /\ \A t \in public : ~IsLocalPath(t)
        /\ bpc = "done" =>
            \A b \in Branches : \A t \in RemapGraphForBranch(public, b) : ~IsLocalPath(t)

\* C14 witness: build_rdf_content returned for a document with a track bound to a file:
\* the private graph holds its local path, and the full graph holds the track.
C14_Witness ==
    /\ bpc = "done"
    /\ \E t \in private : IsLocalPath(t) /\ <<t[1], Term(RDF, "type"), Term(MO, "Track")>> \in g

\* C15 as stated: with enrichment disabled, the triples build_rdf_content yields for
\* a document are the same in every run, the terms of the release event's time
\* instant included: the release event graph is the one any other run would build,
\* whatever node id that run is given.
C15_SameTriplesEveryRun ==
    (bpc \in {"tracks", "done"} /\ MbidClean(bdoc.header) = None) =>
        \A bid \in BNodeIds :
            releaseEventGraph = ReleaseEventTriples(bdoc, ssvUriComponent, ws_release_json, bid)

-----------------------------------------------------------------------------
(* The per-entity outputs, checked under SpecEntities: build_rdf_content    *)
(* on a document of up to MaxTrack tracks without a release identifier,     *)
(* then the loop of __main__ that writes locals_dict under -D, with every   *)
(* outcome of creating a subdir and of serializing a graph.                 *)

\* the cue files of the run: no header line or a title, then tracks 1..k
EntityFiles ==
    {h \o b : h \in {<<>>, <<Ln("TITLE", "", "A1", "")>>}, b \in BodyLines(MaxTrack)}

InitEntities ==
    /\ ParseIdle /\ RemapIdle /\ GateIdle
    /\ bpc = "start"
    /\ bdoc \in {ParseCueFile(CuePath, f) : f \in EntityFiles}
    /\ roots \in RootLists
    /\ peaks_root_dir = FALSE
    /\ ssvUriComponent = <<>> /\ mbid_clean = None /\ mbz_album_json = JNull
    /\ ws_release_json = JNull /\ release_recordings_map = NoMap /\ tpos = 0
    /\ g = {} /\ private = {} /\ releaseGraph = {} /\ releaseEventGraph = {}
    /\ recordGraph = {} /\ trackGraph = {} /\ signalGraph = {}
    /\ performanceGraphs = <<>> /\ performerGraphs = <<>>
    /\ locals_dict = [s \in Subdirs |-> <<>>] /\ mbcalls = <<>> /\ peaks_files = {}
    /\ wpc = "entities" /\ plan = <<>> /\ wpos = 0 /\ written = {}
    /\ esub = 0 /\ entity_files = NoFiles
SpecEntities == InitEntities /\ [][BuildNext \/ WriteSubdir \/ WriteEntitiesEnd]_vars

\* C21 as stated: when the main block has written the per-entity outputs, every
\* complete artifact at <type>/<identifier component> holds the triples routed to
\* that type for every track of the document; for a document of two or more tracks
\* the performance and performer artifacts hold the Performance and the Performer
\* of each of its tracks.
C21_EntityFilesHoldAllTracks ==
    wpc = "done" =>
        \A s \in Subdirs :
            (ssvUriComponent \in DOMAIN entity_files[s]
             /\ entity_files[s][ssvUriComponent].complete)
            => \A j \in 1..Len(locals_dict[s]) :
                Deref(locals_dict[s][j]) \subseteq entity_files[s][ssvUriComponent].graph

\* C22 as stated: when build_rdf_content has returned for a document, with or
\* without tracks, the full graph holds its Release, its ReleaseEvent and its
\* Record, the Record typed as a Record and carrying a track count, and every triple
\* of the release sub-graph, the publisher and catalogue-number triples of the label
\* information included.
C22_DocumentEntitiesInFullGraph ==
    bpc = "done" =>
        /\ IsA(g, ReleaseOf(ssvUriComponent), "Release")
        /\ IsA(g, URIRef(SSVReleaseEvent \o ssvUriComponent), "ReleaseEvent")
        /\ IsA(g, RecordOf(ssvUriComponent), "Record")
        /\ \E t \in g : t[1] = RecordOf(ssvUriComponent) /\ t[2] = Term(MO, "track_count")
        /\ releaseGraph \subseteq g

-----------------------------------------------------------------------------
(* The release identifier, checked under SpecMbid: build_rdf_content on    *)
(* documents whose header carries an identifier, valid or not, with every  *)
(* answer of musicbrainz.org to the requests made.                         *)

InitMbid ==
    /\ ParseIdle /\ RemapIdle /\ GateIdle /\ WriteIdle
    /\ bpc = "start"
    /\ bdoc \in {ParseCueFile(CuePath, h \o b) :
                    h \in {x \in HeaderLines : \E i \in 1..Len(x) : x[i].arg = "MUSICBRAINZ_ALBUM_ID"},
                    b \in BodyLines(MaxTrack)}
    /\ roots \in RootLists
    /\ peaks_root_dir = FALSE
    /\ ssvUriComponent = <<>> /\ mbid_clean = None /\ mbz_album_json = JNull
    /\ ws_release_json = JNull /\ release_recordings_map = NoMap /\ tpos = 0
    /\ g = {} /\ private = {} /\ releaseGraph = {} /\ releaseEventGraph = {}
    /\ recordGraph = {} /\ trackGraph = {} /\ signalGraph = {}
    /\ performanceGraphs = <<>> /\ performerGraphs = <<>>
    /\ locals_dict = [s \in Subdirs |-> <<>>] /\ mbcalls = <<>> /\ peaks_files = {}
SpecMbid == InitMbid /\ [][BuildNext]_vars

\* the header carries a release identifier that is not a valid UUID after cleaning
InvalidMbid(h) ==
    "mbz_album_id" \in DOMAIN h /\ ~IsValidUuid(CleanMbid(h["mbz_album_id"]))

\* C16: for a document whose release identifier fails validation, build_rdf_content
\* makes no request to musicbrainz.org at any point, and neither the Release nor the
\* Record gets a musicbrainz link.
C16_InvalidMbidNoRequest ==
    InvalidMbid(bdoc.header) =>
        /\ mbcalls = <<>>
        /\ \A t \in PublicTriples \cup recordGraph \cup releaseGraph :
            t[1] \in {ReleaseOf(ssvUriComponent), RecordOf(ssvUriComponent)}
            => t[2] # Term(MO, "musicbrainz")

\* C16 witness: build_rdf_content returned for a document with an invalid release
\* identifier and at least one track; the Release and the Record were built.
C16_Witness ==
    /\ bpc = "done"
    /\ InvalidMbid(bdoc.header)
    /\ Len(bdoc.keys) > 0
    /\ IsA(g, ReleaseOf(ssvUriComponent), "Release")
    /\ IsA(g, RecordOf(ssvUriComponent), "Record")

\* C17 as stated: when build_rdf_content has returned, a track carries the peaks
\* reference on its Signal or the available-as relation on its Track only if
\* compute_peaks wrote the peaks file of that track.
C17_PeaksOnlyOnSuccess ==
    bpc = "done" =>
        \A n \in DOMAIN bdoc.trk :
            (\/ Emitted(TrackEntity("signal", ssvUriComponent, n), Term(SSVO, "peaks"))
             \/ Emitted(TrackEntity("track", ssvUriComponent, n), Term(MO, "available_as")))
            => n \in peaks_files

-----------------------------------------------------------------------------
(* Claims about the outputs of a run, checked under SpecWrite *)

\* C18 as stated: a failure to create an output directory or to write a serialization
\* never ends the run: no exception leaves the script, and when the run has ended
\* every artifact of the plan was attempted.
C18_WriteFailureContained ==
    /\ wpc # "raised"
    /\ wpc = "done" => wpos = Len(plan)

-----------------------------------------------------------------------------
(* Claims about work resolution, checked under SpecMbid *)

\* C19 as stated: when the single external track matched to a local track lists
\* several works in its recordingOf, each of them is a Work of the full graph and the
\* track's Performance is linked to each with performance_of.
C19_AllWorksLinked ==
    (bpc = "done" /\ mbz_album_json.shape = "dict") =>
        \A n \in DOMAIN bdoc.trk :
            LET mt == MatchingTracks(mbz_album_json.track, n)
            IN  (Len(mt) = 1 /\ mt[1].hasRec) =>
                    \A j \in 1..Len(mt[1].recordingOf) :
                        LET w == mt[1].recordingOf[j]
                        IN  w.id # "" =>
                                /\ IsA(g, Term(WORK, w.id), "MusicalWork")
                                /\ <<TrackEntity("performance", ssvUriComponent, n),
                                     Term(MO, "performance_of"), Term(WORK, w.id)>> \in g

-----------------------------------------------------------------------------
(* Claims about track records, checked under SpecParse *)

\* C20 as stated: once a later TRACK line has been read, a loop iteration changes or
\* discards no field of the earlier track, whatever the line (a TRACK line declaring
\* the same number again included), and the order of the entries only grows.
C20_ClosedTracksFrozen ==
    [][Iteration =>
        /\ \A n \in DOMAIN parsed.trk :
            n # current_track => (n \in DOMAIN parsed'.trk /\ parsed'.trk[n] = parsed.trk[n])
        /\ Len(parsed.keys) <= Len(parsed'.keys)
        /\ SubSeq(parsed'.keys, 1, Len(parsed.keys)) = parsed.keys]_vars

====
